---- MODULE Spec2Model ----
(***************************************************************************)
(* Model of scripts/fetch_geojson.py: the Overpass -> GeoJSON mapper, the  *)
(* Nominatim -> GeoJSON mapper and the control flow of main().             *)
(*                                                                         *)
(* Python dicts are functions whose DOMAIN is the set of keys present, so  *)
(* `"k" in d` is "k" \in DOMAIN d and d["k"] on an absent key is the       *)
(* KeyError the operators return explicitly.  Python strings that the code *)
(* takes apart (the tag filter, the lon/lat strings) are sequences of      *)
(* one-character strings.                                                  *)
(***************************************************************************)
EXTENDS Integers, Sequences, FiniteSets, TLC

VARIABLES
    data,       \* argument of overpass_to_geojson
    mapped,     \* what overpass_to_geojson returned or raised
    results,    \* decoded Nominatim response handed to the mapper of fetch_nominatim
    located,    \* what the Nominatim mapper returned or raised
    args,       \* argparse namespace: query, area, nominatim
    pc,         \* position of main()
    stdout,     \* lines printed to standard output
    stderr,     \* lines printed to the error stream
    requests,   \* HTTP requests issued so far, in order
    outcomes,   \* how each issued request ended, in order
    raw,        \* decoded Overpass response held by main
    geojson,    \* FeatureCollection held by main
    dirMade,    \* output_path.parent.mkdir has run
    file,       \* the output file
    file0,      \* the output file as it was when the process started
    exitCode    \* process exit status, -1 while running

vars == <<data, mapped, results, located, args, pc, stdout, stderr, requests,
          outcomes, raw, geojson, dirMade, file, file0, exitCode>>

mapVars == <<data, mapped>>
nomVars == <<results, located>>
mainVars == <<args, pc, stdout, stderr, requests, outcomes, raw, geojson,
              dirMade, file, file0, exitCode>>

(***************************************************************************)
(* Bounds of the model                                                     *)
(***************************************************************************)
MaxCoord == 1       \* coordinates range over 0..MaxCoord
MaxGeomLen == 4     \* longest geometry list of a way
MaxElems == 3       \* longest mixed list of elements
MaxResults == 2     \* longest Nominatim result list

(***************************************************************************)
(* Python values                                                           *)
(***************************************************************************)
None == << >>
EmptyDict == << >>
Raise(kind) == [raise |-> kind]
IsRaise(v) == "raise" \in DOMAIN v
Returned(v) == DOMAIN v # {}
IsCollection(v) == "features" \in DOMAIN v

EmptyCollection == [type |-> "FeatureCollection", features |-> << >>]

SeqsUpTo(S, n) == UNION {[1..k -> S] : k \in 0..n}

(***************************************************************************)
(* overpass_to_geojson                                                     *)
(***************************************************************************)
MinRingLen == 4

NodeGeom(elem) ==
    IF "lon" \notin DOMAIN elem \/ "lat" \notin DOMAIN elem
    THEN Raise("KeyError")
    ELSE [type |-> "Point", coordinates |-> <<elem["lon"], elem["lat"]>>]

\* pt["lon"] or pt["lat"] of the list comprehension finds no key.
PointKeyError(geometry) ==
    \E i \in 1..Len(geometry) :
        "lon" \notin DOMAIN geometry[i] \/ "lat" \notin DOMAIN geometry[i]

WayCoords(geometry) ==
    [i \in 1..Len(geometry) |-> <<geometry[i]["lon"], geometry[i]["lat"]>>]

WayGeom_NoLength(coords) ==
    IF coords # << >> /\ coords[1] = coords[Len(coords)]
    THEN [type |-> "Polygon", coordinates |-> <<coords>>]
    ELSE [type |-> "LineString", coordinates |-> coords]

WayGeom(coords) ==
    IF coords # << >> /\ coords[1] = coords[Len(coords)] /\ Len(coords) >= MinRingLen
    THEN [type |-> "Polygon", coordinates |-> <<coords>>]
    ELSE [type |-> "LineString", coordinates |-> coords]

RelationGeom_Open(b) ==
    IF {"minlon", "minlat", "maxlon", "maxlat"} \subseteq DOMAIN b
    THEN [type |-> "Polygon",
          coordinates |-> << << <<b["minlon"], b["minlat"]>>,
                                <<b["maxlon"], b["minlat"]>>,
                                <<b["maxlon"], b["maxlat"]>>,
                                <<b["minlon"], b["maxlat"]>>,
                                <<b["minlon"], b["maxlat"]>> >> >>]
    ELSE Raise("KeyError")

RelationGeom(b) ==
    IF {"minlon", "minlat", "maxlon", "maxlat"} \subseteq DOMAIN b
    THEN [type |-> "Polygon",
          coordinates |-> << << <<b["minlon"], b["minlat"]>>,
                                <<b["maxlon"], b["minlat"]>>,
                                <<b["maxlon"], b["maxlat"]>>,
                                <<b["minlon"], b["maxlat"]>>,
                                <<b["minlon"], b["minlat"]>> >> >>]
    ELSE Raise("KeyError")

\* The if / elif / elif chain of the loop body: the geometry, None, or the
\* KeyError of a subscript on an absent key.
ElemGeom(elem) ==
    IF "type" \notin DOMAIN elem THEN Raise("KeyError")
    ELSE IF elem["type"] = "node" THEN NodeGeom(elem)
    ELSE IF elem["type"] = "way" /\ "geometry" \in DOMAIN elem
         THEN IF PointKeyError(elem["geometry"]) THEN Raise("KeyError")
              ELSE WayGeom(WayCoords(elem["geometry"]))
    ELSE IF elem["type"] = "relation" /\ "bounds" \in DOMAIN elem
         THEN RelationGeom(elem["bounds"])
    ELSE None

Feature(elem, geom) ==
    [type |-> "Feature",
     properties |-> IF "tags" \in DOMAIN elem THEN elem["tags"] ELSE EmptyDict,
     geometry |-> geom]

RECURSIVE MapElements_Prepend(_, _, _)
MapElements_Prepend(elems, i, features) ==
    IF i > Len(elems) THEN [type |-> "FeatureCollection", features |-> features]
    ELSE LET geom == ElemGeom(elems[i])
         IN  IF IsRaise(geom) THEN geom
             ELSE IF DOMAIN geom # {}
                  THEN MapElements_Prepend(elems, i + 1,
                                           <<Feature(elems[i], geom)>> \o features)
             ELSE MapElements_Prepend(elems, i + 1, features)

\* The for loop, from element i on, with the features appended so far.
RECURSIVE MapElements(_, _, _)
MapElements(elems, i, features) ==
    IF i > Len(elems) THEN [type |-> "FeatureCollection", features |-> features]
    ELSE LET geom == ElemGeom(elems[i])
         IN  IF IsRaise(geom) THEN geom
             ELSE IF DOMAIN geom # {}
                  THEN MapElements(elems, i + 1, Append(features, Feature(elems[i], geom)))
             ELSE MapElements(elems, i + 1, features)

overpass_to_geojson(d) ==
    MapElements(IF "elements" \in DOMAIN d THEN d["elements"] ELSE << >>, 1, << >>)

(***************************************************************************)
(* Inputs of the mapper                                                    *)
(***************************************************************************)
Coord == 0..MaxCoord
Opt(key, S) == {EmptyDict} \cup {key :> v : v \in S}
Tags == {[name |-> "Ueno"]}
Points == {[lon |-> x, lat |-> y] : x \in Coord, y \in {0, 1}}
Geometries == SeqsUpTo(Points, MaxGeomLen)
Bounds == {[minlon |-> a, minlat |-> b, maxlon |-> c, maxlat |-> d] :
              a \in Coord, b \in Coord, c \in Coord, d \in Coord}

Nodes == {("type" :> "node") @@ lo @@ la @@ t :
             lo \in Opt("lon", Coord), la \in Opt("lat", Coord), t \in Opt("tags", Tags)}
Ways == {("type" :> "way") @@ g @@ t :
            g \in Opt("geometry", Geometries), t \in Opt("tags", Tags)}
Relations == {("type" :> "relation") @@ b @@ g @@ m :
                 b \in Opt("bounds", Bounds),
                 g \in Opt("geometry", {<< >>, <<[lon |-> 0, lat |-> 1]>>}),
                 m \in Opt("members", {<<[type |-> "way", ref |-> 7]>>})}
Others == {[type |-> "area"], [id |-> 7], [id |-> 7, lon |-> 0, lat |-> 1]}
Elements == Nodes \cup Ways \cup Relations \cup Others

Ring4 == <<[lon |-> 0, lat |-> 0], [lon |-> 1, lat |-> 0],
           [lon |-> 1, lat |-> 1], [lon |-> 0, lat |-> 0]>>
SampleElements ==
    { [type |-> "node", lon |-> 0, lat |-> 1, tags |-> [name |-> "Ueno"]],
      [type |-> "node", lat |-> 1],
      [type |-> "way", geometry |-> Ring4],
      [type |-> "way", geometry |-> <<[lon |-> 0, lat |-> 1], [lon |-> 1, lat |-> 1]>>],
      [type |-> "way", geometry |-> <<[lon |-> 0]>>],
      [type |-> "way", nodes |-> <<1, 2>>],
      [type |-> "relation",
       bounds |-> [minlon |-> 0, minlat |-> 0, maxlon |-> 1, maxlat |-> 1]],
      [type |-> "relation", members |-> << >>],
      [type |-> "area"],
      [id |-> 7] }

OverpassData ==
    {[version |-> 6]}
    \cup {[elements |-> <<e>>] : e \in Elements}
    \cup {[elements |-> es] : es \in SeqsUpTo(SampleElements, MaxElems)}

\* main() is not running.
MainIdle ==
    /\ args = EmptyDict /\ pc = "idle" /\ stdout = << >> /\ stderr = << >>
    /\ requests = << >> /\ outcomes = << >> /\ raw = None /\ geojson = None
    /\ dirMade = FALSE /\ file = [state |-> "absent"]
    /\ file0 = [state |-> "absent"] /\ exitCode = -1

InitMap ==
    /\ data \in OverpassData
    /\ mapped = None
    /\ results = << >> /\ located = None
    /\ MainIdle

CallOverpassToGeojson ==
    /\ mapped = None
    /\ mapped' = overpass_to_geojson(data)
    /\ UNCHANGED <<data, nomVars, mainVars>>

NextMap == CallOverpassToGeojson

SpecMap == InitMap /\ [][NextMap]_vars

(***************************************************************************)
(* Properties of overpass_to_geojson (checked under SpecMap)               *)
(***************************************************************************)
InputElements == IF "elements" \in DOMAIN data THEN data["elements"] ELSE << >>

HasType(e, t) == "type" \in DOMAIN e /\ e["type"] = t
IsNode(e) == HasType(e, "node")
IsWayWithGeometry(e) == HasType(e, "way") /\ "geometry" \in DOMAIN e
IsRelationWithBounds(e) == HasType(e, "relation") /\ "bounds" \in DOMAIN e
IsMappable(e) == IsNode(e) \/ IsWayWithGeometry(e) \/ IsRelationWithBounds(e)

\* Position, in the features list, of the feature made from element i.
FeatureIndex(elems, i) == Cardinality({j \in 1..i : IsMappable(elems[j])})

LonLatPairs(g) == [i \in 1..Len(g) |-> <<g[i].lon, g[i].lat>>]

\* C1: a way whose geometry list has at least 4 points and equal first and
\* last points becomes a Polygon with the one ring equal to the input list;
\* every other way with a geometry list (short closed lists, open lists, the
\* empty list) becomes a LineString with the input list, in order.
C1_WayPolygonOrLineString ==
    IsCollection(mapped) =>
        \A i \in 1..Len(InputElements) :
            LET e == InputElements[i] IN
            IsWayWithGeometry(e) =>
                LET g == e["geometry"]
                    geom == mapped.features[FeatureIndex(InputElements, i)].geometry
                IN  IF Len(g) >= 4 /\ g[1] = g[Len(g)]
                    THEN /\ geom.type = "Polygon"
                         /\ Len(geom.coordinates) = 1
                         /\ geom.coordinates[1] = LonLatPairs(g)
                    ELSE /\ geom.type = "LineString"
                         /\ geom.coordinates = LonLatPairs(g)

\* A closed ring of 4 points mapped to a Polygon, and a closed list of 3
\* points mapped to a LineString.
C1_Witness ==
    /\ IsCollection(mapped)
    /\ Len(InputElements) = 1
    /\ IsWayWithGeometry(InputElements[1])
    /\ Len(InputElements[1]["geometry"]) = 4
    /\ InputElements[1]["geometry"][1] = InputElements[1]["geometry"][4]
    /\ InputElements[1]["geometry"][2] # InputElements[1]["geometry"][3]
    /\ mapped.features[1].geometry.type = "Polygon"

\* An element that lacks the field its type requires, or has no or an unknown
\* type.
LacksRequired(e) ==
    \/ "type" \notin DOMAIN e
    \/ IsNode(e) /\ ("lon" \notin DOMAIN e \/ "lat" \notin DOMAIN e)
    \/ HasType(e, "way") /\ "geometry" \notin DOMAIN e
    \/ HasType(e, "relation") /\ "bounds" \notin DOMAIN e
    \/ e["type"] \notin {"node", "way", "relation"}

\* C2: a list of elements each lacking the field required by its type (or
\* with a missing or unknown type) is mapped, without an error, to a
\* FeatureCollection with no features.
C2_LackingElementsSkipped ==
    (Returned(mapped) /\ \A i \in 1..Len(InputElements) : LacksRequired(InputElements[i]))
        => mapped = EmptyCollection

\* C7: the features are the images, in input order, of exactly the mappable
\* elements (nodes, ways with geometry, relations with bounds), one feature
\* each, so never more features than elements; no elements, no features.
C7_FeaturesInInputOrder ==
    /\ (Returned(mapped) /\ InputElements = << >>) => mapped = EmptyCollection
    /\ IsCollection(mapped) =>
        LET sel == SelectSeq(InputElements, IsMappable)
        IN  /\ mapped.type = "FeatureCollection"
            /\ Len(mapped.features) = Len(sel)
            /\ Len(mapped.features) <= Len(InputElements)
            /\ \A k \in 1..Len(sel) :
                   mapped.features[k] = Feature(sel[k], ElemGeom(sel[k]))

\* Three elements, the middle one skipped, the outer two mapped to different
\* features that keep their order.
C7_Witness ==
    /\ IsCollection(mapped)
    /\ Len(InputElements) = 3
    /\ IsMappable(InputElements[1])
    /\ ~IsMappable(InputElements[2])
    /\ IsMappable(InputElements[3])
    /\ Len(mapped.features) = 2
    /\ mapped.features[1].geometry.type = "Point"
    /\ mapped.features[2].geometry.type = "Polygon"

\* C8: a relation with bounds becomes a Polygon with the one ring of five
\* positions minlon/minlat, maxlon/minlat, maxlon/maxlat, minlon/maxlat,
\* minlon/minlat, closed, whatever other fields the relation has.
C8_RelationBoundingBox ==
    IsCollection(mapped) =>
        \A i \in 1..Len(InputElements) :
            LET e == InputElements[i] IN
            IsRelationWithBounds(e) =>
                LET b == e["bounds"]
                    geom == mapped.features[FeatureIndex(InputElements, i)].geometry
                IN  /\ geom.type = "Polygon"
                    /\ Len(geom.coordinates) = 1
                    /\ geom.coordinates[1] = << <<b.minlon, b.minlat>>,
                                                <<b.maxlon, b.minlat>>,
                                                <<b.maxlon, b.maxlat>>,
                                                <<b.minlon, b.maxlat>>,
                                                <<b.minlon, b.minlat>> >>
                    /\ geom.coordinates[1][1] = geom.coordinates[1][5]

\* A relation with bounds, geometry and members mapped to its bounding box.
C8_Witness ==
    /\ IsCollection(mapped)
    /\ Len(InputElements) = 1
    /\ IsRelationWithBounds(InputElements[1])
    /\ {"geometry", "members"} \subseteq DOMAIN InputElements[1]
    /\ InputElements[1]["geometry"] # << >>
    /\ InputElements[1]["bounds"].minlon # InputElements[1]["bounds"].maxlon
    /\ InputElements[1]["bounds"].minlat # InputElements[1]["bounds"].maxlat
    /\ mapped.features[1].geometry.type = "Polygon"

(***************************************************************************)
(* fetch_nominatim: from the decoded response to the FeatureCollection     *)
(***************************************************************************)
Digits == {"0", "1", "2", "3", "4", "5", "6", "7", "8", "9"}
DigitValue ==
    ("0" :> 0) @@ ("1" :> 1) @@ ("2" :> 2) @@ ("3" :> 3) @@ ("4" :> 4) @@
    ("5" :> 5) @@ ("6" :> 6) @@ ("7" :> 7) @@ ("8" :> 8) @@ ("9" :> 9)

HasSign(s) == s # << >> /\ s[1] \in {"-", "+"}
Unsigned(s) == IF HasSign(s) THEN Tail(s) ELSE s

\* float(s) accepts s: an optional sign and decimal digits (the whole-number
\* literals; the inputs of the model hold no fraction or exponent).
IsFloatLiteral(s) ==
    /\ Unsigned(s) # << >>
    /\ \A i \in 1..Len(Unsigned(s)) : Unsigned(s)[i] \in Digits

RECURSIVE DigitsValue(_, _)
DigitsValue(s, acc) ==
    IF s = << >> THEN acc ELSE DigitsValue(Tail(s), 10 * acc + DigitValue[Head(s)])

\* float(s) for an accepted s.
Float(s) ==
    IF HasSign(s) /\ s[1] = "-" THEN 0 - DigitsValue(Unsigned(s), 0)
    ELSE DigitsValue(Unsigned(s), 0)

Get(d, key, default) == IF key \in DOMAIN d THEN d[key] ELSE default

NominatimFeature(r) ==
    [type |-> "Feature",
     properties |-> [name |-> Get(r, "display_name", ""),
                     type |-> Get(r, "type", ""),
                     category |-> Get(r, "category", "")],
     geometry |-> [type |-> "Point",
                   coordinates |-> <<Float(r["lon"]), Float(r["lat"])>>]]

\* float(r["lon"]) is evaluated before float(r["lat"]).
NominatimError(r) ==
    IF "lon" \notin DOMAIN r THEN "KeyError"
    ELSE IF ~IsFloatLiteral(r["lon"]) THEN "ValueError"
    ELSE IF "lat" \notin DOMAIN r THEN "KeyError"
    ELSE IF ~IsFloatLiteral(r["lat"]) THEN "ValueError"
    ELSE "none"

NominatimCollection_Last(res) ==
    IF res = << >> THEN [type |-> "FeatureCollection", features |-> << >>]
    ELSE IF NominatimError(res[Len(res)]) # "none"
         THEN Raise(NominatimError(res[Len(res)]))
    ELSE [type |-> "FeatureCollection",
          features |-> <<NominatimFeature(res[Len(res)])>>]

NominatimCollection(res) ==
    IF res = << >> THEN [type |-> "FeatureCollection", features |-> << >>]
    ELSE IF NominatimError(res[1]) # "none" THEN Raise(NominatimError(res[1]))
    ELSE [type |-> "FeatureCollection", features |-> <<NominatimFeature(res[1])>>]

LonStrings == {<<"1", "3", "9">>, <<"-", "7">>, <<"x">>}
LatStrings == {<<"3", "5">>, <<"+", "0">>, << >>}
NominatimResults ==
    {lo @@ la @@ n @@ t @@ c :
        lo \in Opt("lon", LonStrings), la \in Opt("lat", LatStrings),
        n \in Opt("display_name", {"Tokyo Station"}),
        t \in Opt("type", {"station"}), c \in Opt("category", {"railway"})}
FurtherResults ==
    { [lon |-> <<"1", "3", "5">>, lat |-> <<"3", "4">>, display_name |-> "Osaka",
       type |-> "city", category |-> "place"],
      [lon |-> <<"x">>, lat |-> <<"3", "4">>],
      [display_name |-> "Nowhere"] }
NominatimResultLists ==
    {<< >>} \cup {<<r>> \o rest : r \in NominatimResults,
                                  rest \in SeqsUpTo(FurtherResults, MaxResults - 1)}

InitNominatim ==
    /\ results \in NominatimResultLists
    /\ located = None
    /\ data = EmptyDict /\ mapped = None
    /\ MainIdle

CallNominatimCollection ==
    /\ located = None
    /\ located' = NominatimCollection(results)
    /\ UNCHANGED <<results, mapVars, mainVars>>

NextNominatim == CallNominatimCollection

SpecNominatim == InitNominatim /\ [][NextNominatim]_vars

(***************************************************************************)
(* Properties of the Nominatim mapper (checked under SpecNominatim)        *)
(***************************************************************************)
\* What the decimal strings of the model denote.
Denotes ==
    (<<"1", "3", "9">> :> 139) @@ (<<"-", "7">> :> -7) @@
    (<<"3", "5">> :> 35) @@ (<<"+", "0">> :> 0)

HasCoordinates(r) ==
    /\ "lon" \in DOMAIN r /\ r["lon"] \in DOMAIN Denotes
    /\ "lat" \in DOMAIN r /\ r["lat"] \in DOMAIN Denotes

\* C6: an empty result list gives the empty FeatureCollection; a non-empty
\* one gives exactly one Point feature made from the first result alone, with
\* name/type/category defaulting to "" and coordinates [lon, lat] of that
\* result, however many results follow.
C6_FirstResultOnly ==
    /\ (Returned(located) /\ results = << >>) => located = EmptyCollection
    /\ (IsCollection(located) /\ results # << >>) => Len(located.features) = 1
    /\ (Returned(located) /\ results # << >> /\ HasCoordinates(results[1])) =>
          LET r == results[1] IN
          /\ IsCollection(located)
          /\ located.type = "FeatureCollection"
          /\ Len(located.features) = 1
          /\ located.features[1].type = "Feature"
          /\ located.features[1].geometry.type = "Point"
          /\ located.features[1].geometry.coordinates
                 = <<Denotes[r["lon"]], Denotes[r["lat"]]>>
          /\ located.features[1].properties
                 = [name |-> IF "display_name" \in DOMAIN r THEN r["display_name"] ELSE "",
                    type |-> IF "type" \in DOMAIN r THEN r["type"] ELSE "",
                    category |-> IF "category" \in DOMAIN r THEN r["category"] ELSE ""]

\* Two results, the first without a name: one feature, from the first.
C6_Witness ==
    /\ IsCollection(located)
    /\ Len(results) = 2
    /\ "display_name" \notin DOMAIN results[1]
    /\ "display_name" \in DOMAIN results[2]
    /\ results[2]["display_name"] = "Osaka"
    /\ Len(located.features) = 1
    /\ located.features[1].properties.name = ""
    /\ located.features[1].geometry.coordinates = <<-7, 35>>

(***************************************************************************)
(* fetch_overpass: the tag filter                                          *)
(***************************************************************************)
\* Index of the first "=" of tag, 0 when there is none.
FirstEquals(tag) ==
    IF \E i \in 1..Len(tag) : tag[i] = "="
    THEN CHOOSE i \in 1..Len(tag) :
             tag[i] = "=" /\ \A j \in 1..(i - 1) : tag[j] # "="
    ELSE 0

\* tag.split("=", 1)
SplitOnce(tag) ==
    IF FirstEquals(tag) = 0 THEN <<tag>>
    ELSE <<SubSeq(tag, 1, FirstEquals(tag) - 1),
           SubSeq(tag, FirstEquals(tag) + 1, Len(tag))>>

OverpassTimeout == 25

OverpassRequest(tag, area, timeout) ==
    [endpoint |-> "overpass", key |-> SplitOnce(tag)[1], value |-> SplitOnce(tag)[2],
     area |-> area, timeout |-> timeout]

NominatimLimit == 1

NominatimRequest(query) ==
    [endpoint |-> "nominatim", format |-> "jsonv2", limit |-> NominatimLimit, q |-> query]

(***************************************************************************)
(* main                                                                    *)
(***************************************************************************)
\* `not args.query`: the option was not given (None) or is the empty string.
NoQuery == "query" \notin DOMAIN args \/ args["query"] = << >>
NoArea == "area" \notin DOMAIN args \/ args["area"] = ""
NoNominatim == "nominatim" \notin DOMAIN args \/ args["nominatim"] = ""

\* sys.exit(code)
Exit(code) == pc' = "exited" /\ exitCode' = code

\* An uncaught exception raised at `at`: traceback on the error stream, exit
\* status 1; nothing else changes.
Crash_Truncating(kind, at) ==
    /\ stderr' = Append(stderr, [line |-> "traceback", error |-> kind, at |-> at])
    /\ Exit(1)
    /\ file' = [state |-> "truncated"]
    /\ UNCHANGED <<args, stdout, requests, raw, geojson, dirMade, file0>>

Crash(kind, at) ==
    /\ stderr' = Append(stderr, [line |-> "traceback", error |-> kind, at |-> at])
    /\ Exit(1)
    /\ UNCHANGED <<args, stdout, requests, raw, geojson, dirMade, file, file0>>

\* parse_args and the check that a mode was selected.
ParseArgs ==
    /\ pc = "start"
    /\ IF NoQuery /\ NoNominatim
       THEN /\ stdout' = Append(stdout, [line |-> "usage"])
            /\ Exit(1)
       ELSE /\ pc' = "mkdir"
            /\ UNCHANGED <<stdout, exitCode>>
    /\ UNCHANGED <<args, stderr, requests, outcomes, raw, geojson, dirMade, file, file0>>
    /\ UNCHANGED <<mapVars, nomVars>>

\* output_path.parent.mkdir(parents=True, exist_ok=True); the directory can
\* be created.
MakeParentDir ==
    /\ pc = "mkdir"
    /\ dirMade' = TRUE
    /\ pc' = "select"
    /\ UNCHANGED <<args, stdout, stderr, requests, outcomes, raw, geojson, file,
                   file0, exitCode>>
    /\ UNCHANGED <<mapVars, nomVars>>

SelectFlow_NoProgress ==
    /\ pc = "select"
    /\ IF ~NoQuery
       THEN IF NoArea
            THEN /\ stderr' = Append(stderr, [line |-> "area_required"])
                 /\ Exit(1)
                 /\ UNCHANGED stdout
            ELSE /\ pc' = "overpass_send"
                 /\ UNCHANGED <<stdout, stderr, exitCode>>
       ELSE /\ pc' = "nominatim_send"
            /\ UNCHANGED <<stdout, stderr, exitCode>>
    /\ UNCHANGED <<args, requests, outcomes, raw, geojson, dirMade, file, file0>>
    /\ UNCHANGED <<mapVars, nomVars>>

\* `if args.query:` with the --area check and the progress line of each flow.
SelectFlow ==
    /\ pc = "select"
    /\ IF ~NoQuery
       THEN IF NoArea
            THEN /\ stderr' = Append(stderr, [line |-> "area_required"])
                 /\ Exit(1)
                 /\ UNCHANGED stdout
            ELSE /\ stdout' = Append(stdout, [line |-> "fetching_overpass"])
                 /\ pc' = "overpass_send"
                 /\ UNCHANGED <<stderr, exitCode>>
       ELSE /\ stdout' = Append(stdout, [line |-> "fetching_nominatim"])
            /\ pc' = "nominatim_send"
            /\ UNCHANGED <<stderr, exitCode>>
    /\ UNCHANGED <<args, requests, outcomes, raw, geojson, dirMade, file, file0>>
    /\ UNCHANGED <<mapVars, nomVars>>

\* fetch_overpass up to urlopen: the tag is split, the query built, the
\* request put on the wire.
SendOverpass ==
    /\ pc = "overpass_send"
    /\ IF Len(SplitOnce(args["query"])) # 2
       THEN Crash("ValueError", "split") /\ UNCHANGED outcomes
       ELSE /\ requests' = Append(requests,
                                  OverpassRequest(args["query"], args["area"], OverpassTimeout))
            /\ pc' = "overpass_wait"
            /\ UNCHANGED <<args, stdout, stderr, outcomes, raw, geojson, dirMade, file,
                           file0, exitCode>>
    /\ UNCHANGED <<mapVars, nomVars>>

HttpErrors == {"URLError", "HTTPError", "JSONDecodeError"}

OverpassResponses ==
    { [version |-> 6],
      [elements |-> << >>],
      [elements |-> <<[type |-> "node", lon |-> 0, lat |-> 1], [type |-> "area"],
                      [type |-> "way", geometry |-> Ring4]>>],
      [elements |-> <<[type |-> "way", geometry |-> << >>], [type |-> "node", lat |-> 1]>>] }

RecvOverpass_Retry ==
    /\ pc = "overpass_wait"
    /\ \/ \E err \in HttpErrors :
              /\ outcomes' = Append(outcomes, err)
              /\ pc' = "overpass_send"
              /\ UNCHANGED <<args, stdout, stderr, requests, raw, geojson, dirMade,
                             file, file0, exitCode>>
       \/ \E body \in OverpassResponses :
              /\ outcomes' = Append(outcomes, "ok")
              /\ raw' = body
              /\ pc' = "transform"
              /\ UNCHANGED <<args, stdout, stderr, requests, geojson, dirMade, file,
                             file0, exitCode>>
    /\ UNCHANGED <<mapVars, nomVars>>

\* urlopen returns or raises, and the body is decoded: the rest of
\* fetch_overpass.
RecvOverpass ==
    /\ pc = "overpass_wait"
    /\ \/ \E err \in HttpErrors :
              /\ outcomes' = Append(outcomes, err)
              /\ Crash(err, "fetch_overpass")
       \/ \E body \in OverpassResponses :
              /\ outcomes' = Append(outcomes, "ok")
              /\ raw' = body
              /\ pc' = "transform"
              /\ UNCHANGED <<args, stdout, stderr, requests, geojson, dirMade, file,
                             file0, exitCode>>
    /\ UNCHANGED <<mapVars, nomVars>>

\* geojson = overpass_to_geojson(raw)
Transform ==
    /\ pc = "transform"
    /\ IF IsRaise(overpass_to_geojson(raw))
       THEN Crash(overpass_to_geojson(raw).raise, "overpass_to_geojson")
       ELSE /\ geojson' = overpass_to_geojson(raw)
            /\ pc' = "write"
            /\ UNCHANGED <<args, stdout, stderr, requests, raw, dirMade, file, file0,
                           exitCode>>
    /\ UNCHANGED outcomes
    /\ UNCHANGED <<mapVars, nomVars>>

\* fetch_nominatim up to urlopen.
SendNominatim ==
    /\ pc = "nominatim_send"
    /\ requests' = Append(requests, NominatimRequest(args["nominatim"]))
    /\ pc' = "nominatim_wait"
    /\ UNCHANGED <<args, stdout, stderr, outcomes, raw, geojson, dirMade, file, file0,
                   exitCode>>
    /\ UNCHANGED <<mapVars, nomVars>>

NominatimResponses ==
    { << >>,
      <<[lon |-> <<"1", "3", "9">>, lat |-> <<"3", "5">>, display_name |-> "Tokyo Station"]>>,
      <<[lon |-> <<"-", "7">>, lat |-> <<"+", "0">>],
        [lon |-> <<"1", "3", "5">>, lat |-> <<"3", "4">>, display_name |-> "Osaka"]>>,
      <<[display_name |-> "Nowhere"]>>,
      <<[lon |-> <<"x">>, lat |-> <<"3", "5">>]>> }

\* urlopen returns or raises, the body is decoded and mapped: the rest of
\* fetch_nominatim.
RecvNominatim ==
    /\ pc = "nominatim_wait"
    /\ \/ \E err \in HttpErrors :
              /\ outcomes' = Append(outcomes, err)
              /\ Crash(err, "fetch_nominatim")
       \/ \E body \in NominatimResponses :
              /\ outcomes' = Append(outcomes, "ok")
              /\ IF IsRaise(NominatimCollection(body))
                 THEN Crash(NominatimCollection(body).raise, "fetch_nominatim")
                 ELSE /\ geojson' = NominatimCollection(body)
                      /\ pc' = "write"
                      /\ UNCHANGED <<args, stdout, stderr, requests, raw, dirMade, file,
                                     file0, exitCode>>
    /\ UNCHANGED <<mapVars, nomVars>>

\* open(output_path, "w") and json.dump: the file holds the collection, or
\* open raises (file untouched), or the dump stops part-way.
WriteOutput ==
    /\ pc = "write"
    /\ \/ /\ file' = [state |-> "written", content |-> geojson]
          /\ pc' = "report"
          /\ UNCHANGED <<stderr, exitCode>>
       \/ /\ file' \in {file, [state |-> "truncated"]}
          /\ stderr' = Append(stderr, [line |-> "traceback", error |-> "OSError",
                                       at |-> "write"])
          /\ Exit(1)
    /\ UNCHANGED <<args, stdout, requests, outcomes, raw, geojson, dirMade, file0>>
    /\ UNCHANGED <<mapVars, nomVars>>

\* The completion line; main returns.
Report ==
    /\ pc = "report"
    /\ stdout' = Append(stdout, [line |-> "done", n |-> Len(geojson.features)])
    /\ Exit(0)
    /\ UNCHANGED <<args, stderr, requests, outcomes, raw, geojson, dirMade, file, file0>>
    /\ UNCHANGED <<mapVars, nomVars>>

QueryStrings == {<< >>, <<"k", "=", "v">>, <<"k", "v">>, <<"k", "=", "v", "=", "w">>}
CommandLines ==
    {q @@ a @@ n : q \in Opt("query", QueryStrings),
                   a \in Opt("area", {"", "Taito"}),
                   n \in Opt("nominatim", {"", "Tokyo"})}
OldFile == [state |-> "written", content |-> [type |-> "FeatureCollection",
                                              features |-> << >>]]

Init ==
    /\ args \in CommandLines
    /\ pc = "start"
    /\ stdout = << >> /\ stderr = << >>
    /\ requests = << >> /\ outcomes = << >>
    /\ raw = None /\ geojson = None
    /\ dirMade \in BOOLEAN
    /\ file0 \in {[state |-> "absent"], OldFile}
    /\ file = file0
    /\ exitCode = -1
    /\ data = EmptyDict /\ mapped = None /\ results = << >> /\ located = None

Next ==
    \/ ParseArgs
    \/ MakeParentDir
    \/ SelectFlow
    \/ SendOverpass
    \/ RecvOverpass
    \/ Transform
    \/ SendNominatim
    \/ RecvNominatim
    \/ WriteOutput
    \/ Report

Spec == Init /\ [][Next]_vars

(***************************************************************************)
(* Properties of main (checked under Spec)                                 *)
(***************************************************************************)
Given(opt) == opt \in DOMAIN args
Exited == pc = "exited"
Printed(stream, l) == \E i \in 1..Len(stream) : stream[i].line = l
FileWritten == file # file0 \/ pc = "report" \/ Printed(stdout, "done")
Untouched == requests = << >> /\ file = file0

\* C3: with neither --query nor --nominatim on the command line, usage and
\* exit code 1; with --query on the command line and no --area, a message
\* (the --area error, or at least the usage text) and exit code 1; no request
\* and no output file either way.
C3_ValidationFailures ==
    Exited =>
        /\ (~Given("query") /\ ~Given("nominatim")) =>
               exitCode = 1 /\ Printed(stdout, "usage") /\ Untouched
        /\ (Given("query") /\ ~Given("area")) =>
               /\ exitCode = 1
               /\ Printed(stderr, "area_required") \/ Printed(stdout, "usage")
               /\ Untouched

\* C4: a fetch is made and an output file written only when exactly one of
\* --query and --nominatim is given (with a value); giving both is not
\* accepted.
C4_ExactlyOneMode ==
    (requests # << >> \/ FileWritten) => (NoQuery # NoNominatim)

\* C5: at most one HTTP request per invocation, whatever the arguments and
\* however the request ends: never both endpoints, never a retry.
C5_AtMostOneRequest ==
    /\ Len(requests) <= 1
    /\ Len(outcomes) <= Len(requests)

\* A failed request, both modes given, and the process gone without another.
C5_Witness ==
    /\ Exited
    /\ Given("query") /\ Given("nominatim")
    /\ Len(requests) = 1
    /\ outcomes = <<"URLError">>

Progress == {"fetching_overpass", "fetching_nominatim"}

\* C9: validation, progress line, one request, transform, one write,
\* completion line, exit 0, in that order: the request is issued only after
\* the progress line, the file written only after the request returned
\* successfully, and the completion line printed only after the write, with the
\* feature count of the written collection, the process then ending with 0.
C9_StepOrder ==
    /\ requests # << >> =>
           /\ ~(NoQuery /\ NoNominatim)
           /\ Len(stdout) >= 1 /\ stdout[1].line \in Progress
    /\ file # file0 => outcomes = <<"ok">>
    /\ (file # file0 /\ file.state = "written") =>
           IsCollection(geojson) /\ file.content = geojson
    /\ Printed(stdout, "done") =>
           /\ Len(stdout) = 2 /\ stdout[1].line \in Progress
           /\ file.state = "written"
           /\ stdout[2] = [line |-> "done", n |-> Len(file.content.features)]
           /\ Exited /\ exitCode = 0
    /\ exitCode = 0 =>
           Printed(stdout, "done") /\ outcomes = <<"ok">> /\ stderr = << >>

\* A run to the end that wrote two features over an older file.
C9_Witness ==
    /\ Exited /\ exitCode = 0
    /\ file0 = OldFile
    /\ file.state = "written"
    /\ Len(file.content.features) = 2
    /\ stdout = <<[line |-> "fetching_overpass"], [line |-> "done", n |-> 2]>>

FailedBeforeWrite ==
    \E i \in 1..Len(stderr) : stderr[i].line = "traceback" /\ stderr[i].at # "write"

\* C10: an accepted invocation that fails before the write step (tag filter
\* without "=", network failure, HTTP error status, malformed JSON, missing
\* field during mapping) ends with a nonzero exit code and leaves the output
\* file as it was; the tag filter failure comes before any request.
C10_FailureLeavesFile ==
    FailedBeforeWrite =>
        /\ Exited /\ exitCode >= 1
        /\ file = file0
        /\ \A i \in 1..Len(stderr) :
               (stderr[i].line = "traceback" /\ stderr[i].at = "split") =>
                   requests = << >>

\* A mapping failure after a successful request, with an older file in place.
C10_Witness ==
    /\ Exited
    /\ file0 = OldFile
    /\ outcomes = <<"ok">>
    /\ stderr = <<[line |-> "traceback", error |-> "KeyError",
                   at |-> "overpass_to_geojson"]>>

====
